---- MODULE Spec2Model ----
(***************************************************************************)
(* A model of dataparc/connect_dataparc.py: the DataParcConnector, its     *)
(* query executor, and the row reshaping of its four fetch operations.     *)
(*                                                                         *)
(* A call is a frame (the locals of one invocation of a public method).    *)
(* The store (pymssql) is the environment: every interaction with it is    *)
(* one step whose outcome is chosen nondeterministically, so that calls of *)
(* several callers interleave at exactly those points.                     *)
(*                                                                         *)
(* Strings built with f-strings are sequences of their pieces, so that     *)
(* "starts with" and "contains" are computed, not assumed.                 *)
(***************************************************************************)
EXTENDS Integers, Sequences, FiniteSets, TLC

VARIABLES
    environ,      \* os.environ: DATAPARC_* name -> value, None when unset
    ctorCall,     \* the last DataParcConnector(...) call: its arguments and outcome
    connector,    \* the connector's attributes, or NoConnector
    frame,        \* caller -> the frame of the call the caller is in
    conns         \* the connections currently open on the store

vars == <<environ, ctorCall, connector, frame, conns>>

(***************************************************************************)
(* Bounds of the model.                                                    *)
(***************************************************************************)
MaxRows == 2        \* rows a statement returns (Spec)
MaxItems == 1       \* elements of a tag or timestamp collection

(***************************************************************************)
(* Python values.                                                          *)
(***************************************************************************)
None == "<None>"

\* bool(x) of an Optional[str]
Truthy(x) == x # None /\ x # ""

\* Python's `a or b` on Optional[str]
PyOr(a, b) == IF Truthy(a) THEN a ELSE b

\* bool(x) of a collection: a list is true iff non-empty; an iterator or
\* generator object defines neither __bool__ nor __len__ and is always true.
Kinds == {"list", "iterator"}
CollTruthy(coll) == IF coll.kind = "list" THEN Len(coll.items) > 0 ELSE TRUE

EmptyList == [kind |-> "list", items |-> <<>>]

(***************************************************************************)
(* DataParcConnector.__init__                                              *)
(***************************************************************************)
EnvNames == {"DATAPARC_SERVER", "DATAPARC_USERNAME", "DATAPARC_PASSWORD",
             "DATAPARC_SITE_ABBREVIATION", "DATAPARC_TIMEZONE"}

EmptyEnv == [n \in EnvNames |-> None]

\* os.environ.get(name) and os.environ.get(name, default)
EnvGet(env, name) == env[name]
EnvGetDefault(env, name, default) == IF env[name] = None THEN default ELSE env[name]

\* The zone keys ZoneInfo(key) finds; any other key makes ZoneInfo raise.
ValidZones == {"UTC", "Asia/Seoul"}

\* Hours east of UTC of a zone (fixed-offset zones only).
UtcOffset(zone) == IF zone = "Asia/Seoul" THEN 9 ELSE 0

NoCtorArgs == [site_abbreviation |-> None, server |-> None, user |-> None,
               password |-> None, timezone |-> None, database |-> "ctc_config"]

NoConnector == [constructed |-> FALSE, server |-> None, user |-> None,
                password |-> None, database |-> None, abbreviation |-> None,
                timezone |-> None]

NoCtorCall == [done |-> FALSE, args |-> NoCtorArgs, raised |-> None]

\* Lines 106-111: the attributes __init__ assigns.
InitAttrs_EnvFirst(args, env) ==
    [constructed  |-> TRUE,
     server       |-> PyOr(EnvGet(env, "DATAPARC_SERVER"), args.server),
     user         |-> PyOr(EnvGet(env, "DATAPARC_USERNAME"), args.user),
     password     |-> PyOr(EnvGet(env, "DATAPARC_PASSWORD"), args.password),
     database     |-> args.database,
     abbreviation |-> PyOr(EnvGet(env, "DATAPARC_SITE_ABBREVIATION"), args.site_abbreviation),
     timezone     |-> PyOr(args.timezone, EnvGetDefault(env, "DATAPARC_TIMEZONE", "UTC"))]

InitAttrs(args, env) ==
    [constructed  |-> TRUE,
     server       |-> PyOr(args.server, EnvGet(env, "DATAPARC_SERVER")),
     user         |-> PyOr(args.user, EnvGet(env, "DATAPARC_USERNAME")),
     password     |-> PyOr(args.password, EnvGet(env, "DATAPARC_PASSWORD")),
     database     |-> args.database,
     abbreviation |-> PyOr(args.site_abbreviation, EnvGet(env, "DATAPARC_SITE_ABBREVIATION")),
     timezone     |-> PyOr(args.timezone, EnvGetDefault(env, "DATAPARC_TIMEZONE", "UTC"))]

\* Lines 111-114: what __init__ raises, None when it returns normally.
\* ZoneInfo(key) on line 111 raises before the completeness test of line 113.
InitRaises(args, env) ==
    LET a == InitAttrs(args, env) IN
    IF a.timezone \notin ValidZones THEN "ZoneInfoNotFoundError"
    ELSE IF ~Truthy(a.server) \/ ~Truthy(a.user) \/ ~Truthy(a.password) THEN "ValueError"
    ELSE None

\* DataParcConnector(...): a connector exists only when __init__ returns.
DataParcConnector_init(args) ==
    /\ ~connector.constructed
    /\ ctorCall' = [done |-> TRUE, args |-> args, raised |-> InitRaises(args, environ)]
    /\ connector' = IF InitRaises(args, environ) = None
                    THEN InitAttrs(args, environ)
                    ELSE NoConnector
    /\ UNCHANGED <<environ, frame, conns>>

\* The connector the tests build in setUp (lines 14-21 of the test file),
\* with the timezone left open.
SetUpArgs(tz) == [site_abbreviation |-> "TEST", server |-> "localhost",
                  user |-> "test_user", password |-> "test_password",
                  timezone |-> tz, database |-> "ctc_config"]

(***************************************************************************)
(* The data model: datetimes, rows, TagMeasurement, the response envelope. *)
(***************************************************************************)
\* A datetime: its clock fields and its tzinfo ("naive" when it has none).
DateTime(day, hour, tz) == [day |-> day, hour |-> hour, tzinfo |-> tz]

\* A conversion to the zone (datetime.astimezone): the instant is kept and
\* the clock fields move by the difference of the offsets.
ReplaceTzinfo_Converts(ts, zone) ==
    LET h == ts.hour + UtcOffset(zone) - UtcOffset(IF ts.tzinfo = "naive" THEN "UTC" ELSE ts.tzinfo)
    IN  [day |-> ts.day + (IF h >= 24 THEN 1 ELSE IF h < 0 THEN -1 ELSE 0),
         hour |-> (h + 24) % 24,
         tzinfo |-> zone]

\* datetime.replace(tzinfo=zone): the clock fields are kept, the zone is set.
ReplaceTzinfo(ts, zone) == [ts EXCEPT !.tzinfo = zone]

\* TagMeasurement(value, timestamp, quality), lines 39-44 (positional order).
TagMeasurement(value, timestamp, quality) ==
    [value |-> value, timestamp |-> timestamp, quality |-> quality]

\* TagMeasurement.quality_str, lines 46-57.
quality_str(m) ==
    IF m.quality = 192 THEN "Good"
    ELSE IF m.quality = 0 THEN "Bad"
    ELSE "Unknown"

\* The result of an envelope: None, or a dict keyed by tag name.
NoneResult == [isNone |-> TRUE, data |-> <<>>]
DictResult(d) == [isNone |-> FALSE, data |-> d]

\* create_response, lines 15-30.
create_response(status_code, result, message) ==
    [status_code |-> status_code, result |-> result, message |-> message]

NoResponse == [status_code |-> 0, result |-> NoneResult, message |-> <<>>]

\* An exception object: its class and str(e), as the pieces it was built from.
Exc(type, msg) == [type |-> type, msg |-> msg]
NoExc == Exc("None", <<>>)

(***************************************************************************)
(* Rows: what cursor.fetchall() returns with as_dict=True, a dict per row. *)
(* A row is a function on the fields it has; r['f'] raises KeyError when   *)
(* f is not a key of r.                                                    *)
(***************************************************************************)
Fields == {"tagName", "timestamp", "value", "quality"}
Tags == {"T1", "T2"}

\* The samples the store holds of a tag: a good one with a naive timestamp
\* late in the day, a bad one whose timestamp already carries a zone.
Samples ==
    {[timestamp |-> DateTime(1, 20, "naive"), value |-> 1, quality |-> 192],
     [timestamp |-> DateTime(1, 3, "UTC"), value |-> 2, quality |-> 0]}

WellFormedRows ==
    {[tagName |-> t, timestamp |-> s.timestamp, value |-> s.value,
      quality |-> s.quality] : t \in Tags, s \in Samples}

DropField(r, f) == [k \in (DOMAIN r) \ {f} |-> r[k]]

MalformedRows ==
    {DropField([tagName |-> "T1", timestamp |-> DateTime(1, 20, "naive"),
                value |-> 1, quality |-> 192], f) : f \in Fields}

Rows == WellFormedRows \cup MalformedRows

SeqsUpTo(S, n) == UNION {[1..k -> S] : k \in 0..n}

RowOk(r) == Fields \subseteq DOMAIN r

\* The order in which the reshaping code reads the fields of a row:
\* r['tagName'], then r['value'], r['timestamp'], r['quality'].
ReadOrder == <<"tagName", "value", "timestamp", "quality">>

\* The KeyError of the first field read that the row lacks.
KeyErrorOf(r) ==
    LET i == CHOOSE i \in 1..Len(ReadOrder) :
                 /\ ReadOrder[i] \notin DOMAIN r
                 /\ \A j \in 1..(i - 1) : ReadOrder[j] \in DOMAIN r
    IN  Exc("KeyError", <<ReadOrder[i]>>)

\* One measurement from one row, as every fetch operation builds it
\* (lines 174-178, 218-222, 273-277, 316-320).
Measure(r, zone) ==
    TagMeasurement(r.value, ReplaceTzinfo(r.timestamp, zone), r.quality)

EmptyDict == [t \in {} |-> <<>>]

\* d[k] = v
DictSet_KeepFirst(d, k, v) ==
    [t \in (DOMAIN d) \cup {k} |-> IF t \in DOMAIN d THEN d[t] ELSE v]

DictSet(d, k, v) ==
    [t \in (DOMAIN d) \cup {k} |-> IF t = k THEN v ELSE d[t]]

\* if k not in d: d[k] = []; d[k].append(v)
DictAppend_Prepend(d, k, v) ==
    DictSet(d, k, <<v>> \o (IF k \in DOMAIN d THEN d[k] ELSE <<>>))

DictAppend(d, k, v) ==
    DictSet(d, k, (IF k \in DOMAIN d THEN d[k] ELSE <<>>) \o <<v>>)

\* The dict comprehension of fetch_latest_values, lines 173-180: rows are
\* taken in order, a later row of a tag replaces an earlier one; the first
\* missing field raises and ends the comprehension.
RECURSIVE LatestComprehension(_, _, _)
LatestComprehension(rows, zone, acc) ==
    IF rows = <<>> THEN [raised |-> NoExc, data |-> acc]
    ELSE IF ~RowOk(Head(rows)) THEN [raised |-> KeyErrorOf(Head(rows)), data |-> acc]
    ELSE LatestComprehension(Tail(rows), zone,
             DictSet(acc, Head(rows).tagName, Measure(Head(rows), zone)))

\* The grouping loop of fetch_raw_data, fetch_interpolated_data and
\* fetch_data_at_times, lines 213-223, 268-278, 311-321.
RECURSIVE GroupLoop(_, _, _)
GroupLoop(rows, zone, acc) ==
    IF rows = <<>> THEN [raised |-> NoExc, data |-> acc]
    ELSE IF ~RowOk(Head(rows)) THEN [raised |-> KeyErrorOf(Head(rows)), data |-> acc]
    ELSE GroupLoop(Tail(rows), zone,
             DictAppend(acc, Head(rows).tagName, Measure(Head(rows), zone)))

(***************************************************************************)
(* Arguments of the public operations.                                     *)
(***************************************************************************)
Coll(kind, items) == [kind |-> kind, items |-> items]

TagItems(n) == [i \in 1..n |-> IF i = 1 THEN "T1" ELSE "T2"]
TimeItems(n) == [i \in 1..n |-> i - 1]

TagColls == {Coll(k, TagItems(n)) : k \in Kinds, n \in 0..MaxItems}
TimeColls == {Coll(k, TimeItems(n)) : k \in Kinds, n \in 0..MaxItems}
Times == {0, 1}
StepSizes == {-1, 0, 1}
Aggregates == {"AVG"}

NoArgs == [tag_list |-> EmptyList, start_time |-> 0, end_time |-> 0,
           step_size |-> 0, aggregate |-> "", timestamps |-> EmptyList]

FetchOps == {"fetch_latest_values", "fetch_raw_data",
             "fetch_interpolated_data", "fetch_data_at_times"}
GroupedOps == FetchOps \ {"fetch_latest_values"}
Ops == FetchOps \cup {"check_connection"}

(***************************************************************************)
(* Frames.                                                                 *)
(*   pc        where the call is: idle, connect, cursor, execute,          *)
(*             fetchall, exit, handle, returned, raised                    *)
(*   exc       the exception the driver raised inside _execute_query       *)
(*   err       the exception _execute_query raised from it (from e)        *)
(*   results   what _execute_query returned (got says that it returned)    *)
(*   response  the envelope returned to the caller (pc = returned)         *)
(*   raised    the exception that left the operation (pc = raised)         *)
(*   connects, opened, cursors, executes, fetches, closed                  *)
(*             what the store saw of this call: pymssql.connect calls,     *)
(*             connections opened, cursors obtained, execute calls,        *)
(*             fetchall calls, connections closed                          *)
(***************************************************************************)
IdleFrame ==
    [pc |-> "idle", op |-> "none", args |-> NoArgs, query |-> "",
     conn |-> 0, cursor |-> FALSE, exc |-> NoExc,
     results |-> <<>>, got |-> FALSE, err |-> NoExc,
     response |-> NoResponse, raised |-> NoExc,
     connects |-> 0, opened |-> 0, cursors |-> 0, executes |-> 0, fetches |-> 0, closed |-> 0]

Callers == DOMAIN frame

\* The operation returns `response` without entering _execute_query.
Reply(c, op, args, response) ==
    frame' = [frame EXCEPT ![c] =
                 [IdleFrame EXCEPT !.pc = "returned", !.op = op, !.args = args,
                                   !.response = response]]

\* The operation calls self._execute_query(query, params).
Enter(c, op, args, query) ==
    frame' = [frame EXCEPT ![c] =
                 [IdleFrame EXCEPT !.pc = "connect", !.op = op, !.args = args,
                                   !.query = query]]

CanCall(c) == connector.constructed /\ frame[c].pc = "idle"

(***************************************************************************)
(* Input validation of the fetch operations: the message of the 400        *)
(* envelope the operation returns at once, <<>> when it goes on.           *)
(***************************************************************************)
MsgTagsEmpty == <<"Tag list cannot be empty">>
MsgTimeRange == <<"Start time must be before end time">>
MsgStepSize == <<"Step size must be greater than zero">>
MsgTimesEmpty == <<"Timestamps list cannot be empty">>

\* Lines 165-166, 203-206, 250-257, 299-303.
Validation(op, args) ==
    CASE op = "fetch_latest_values" ->
            IF ~CollTruthy(args.tag_list) THEN MsgTagsEmpty ELSE <<>>
      [] op = "fetch_raw_data" ->
            IF ~CollTruthy(args.tag_list) THEN MsgTagsEmpty
            ELSE IF args.start_time >= args.end_time THEN MsgTimeRange
            ELSE <<>>
      [] op = "fetch_interpolated_data" ->
            IF ~CollTruthy(args.tag_list) THEN MsgTagsEmpty
            ELSE IF args.start_time >= args.end_time THEN MsgTimeRange
            ELSE IF args.step_size <= 0 THEN MsgStepSize
            ELSE <<>>
      [] op = "fetch_data_at_times" ->
            IF ~CollTruthy(args.tag_list) THEN MsgTagsEmpty
            ELSE IF ~CollTruthy(args.timestamps) THEN MsgTimesEmpty
            ELSE <<>>
      [] OTHER -> <<>>

\* The statement each operation hands to _execute_query (lines 149, 169,
\* 209, 260-261, 307).  The parameter tuple is bound by the driver.
QueryOf(op) ==
    CASE op = "check_connection" -> "SELECT 1"
      [] op = "fetch_latest_values" -> "ctc_fn_PARCdata_ReadLastTags"
      [] op = "fetch_raw_data" -> "ctc_fn_PARCdata_ReadRawTags"
      [] op = "fetch_interpolated_data" -> "ctc_fn_PARCdata_ReadInterpolatedTags"
      [] op = "fetch_data_at_times" -> "ctc_fn_PARCdata_ReadAtTimeTags"

\* The part of a fetch operation before its try block.
Begin(c, op, args) ==
    /\ CanCall(c)
    /\ IF Validation(op, args) # <<>>
       THEN Reply(c, op, args, create_response(400, NoneResult, Validation(op, args)))
       ELSE Enter(c, op, args, QueryOf(op))
    /\ UNCHANGED <<environ, ctorCall, connector, conns>>

check_connection(c) ==
    /\ CanCall(c)
    /\ Enter(c, "check_connection", NoArgs, QueryOf("check_connection"))
    /\ UNCHANGED <<environ, ctorCall, connector, conns>>

fetch_latest_values(c, tag_list) ==
    Begin(c, "fetch_latest_values", [NoArgs EXCEPT !.tag_list = tag_list])

fetch_raw_data(c, tag_list, start_time, end_time) ==
    Begin(c, "fetch_raw_data",
          [NoArgs EXCEPT !.tag_list = tag_list, !.start_time = start_time,
                         !.end_time = end_time])

fetch_interpolated_data(c, tag_list, start_time, end_time, step_size, aggregate) ==
    Begin(c, "fetch_interpolated_data",
          [NoArgs EXCEPT !.tag_list = tag_list, !.start_time = start_time,
                         !.end_time = end_time, !.step_size = step_size,
                         !.aggregate = aggregate])

fetch_data_at_times(c, tag_list, timestamps) ==
    Begin(c, "fetch_data_at_times",
          [NoArgs EXCEPT !.tag_list = tag_list, !.timestamps = timestamps])

(***************************************************************************)
(* _execute_query, lines 130-140.  Each call into the driver is one step;  *)
(* the driver answers with Ok or raises pymssql.Error or another           *)
(* exception, each carrying the text of its cause.                         *)
(***************************************************************************)
Ok == Exc("Ok", <<>>)
StoreErrors == {Exc("pymssql.Error", <<"Login failed">>)}
OtherErrors == {Exc("Exception", <<"Connection failed">>)}
Failures == StoreErrors \cup OtherErrors
Outcomes == {Ok} \cup Failures

\* The except clauses of lines 135-140.
ExecuteQueryRaises_NoCause(e) ==
    IF e.type = "pymssql.Error"
    THEN Exc("DatabaseError", <<"Database error occurred: ">>)
    ELSE Exc("UnexpectedError", <<"An unexpected error occurred: ">>)

ExecuteQueryRaises(e) ==
    IF e.type = "pymssql.Error"
    THEN Exc("DatabaseError", <<"Database error occurred: ">> \o e.msg)
    ELSE Exc("UnexpectedError", <<"An unexpected error occurred: ">> \o e.msg)

ConnIds(cs) == {k.id : k \in cs}

\* The connection pymssql.connect returns: a new one on every call.
ConnectedId_Pooled(cs) ==
    IF cs = {} THEN 1 ELSE CHOOSE i \in ConnIds(cs) : TRUE

ConnectedId(cs) ==
    CHOOSE i \in 1..(Cardinality(cs) + 1) :
        /\ i \notin ConnIds(cs)
        /\ \A j \in 1..(i - 1) : j \in ConnIds(cs)

\* Line 131, pymssql.connect(...): on failure no connection exists and the
\* except clauses run at once.
pymssql_connect(c, outcome) ==
    /\ frame[c].pc = "connect"
    /\ IF outcome = Ok
       THEN LET id == ConnectedId(conns) IN
            /\ conns' = IF id \in ConnIds(conns) THEN conns
                        ELSE conns \cup {[id |-> id, usedBy |-> {}]}
            /\ frame' = [frame EXCEPT ![c].pc = "cursor", ![c].conn = id,
                                      ![c].connects = @ + 1, ![c].opened = @ + 1]
       ELSE /\ frame' = [frame EXCEPT ![c].pc = "handle", ![c].connects = @ + 1,
                                      ![c].exc = outcome,
                                      ![c].err = ExecuteQueryRaises(outcome)]
            /\ UNCHANGED conns
    /\ UNCHANGED <<environ, ctorCall, connector>>

\* Line 132, conn.cursor(as_dict=True).
conn_cursor(c, outcome) ==
    /\ frame[c].pc = "cursor"
    /\ frame' = IF outcome = Ok
                THEN [frame EXCEPT ![c].pc = "execute", ![c].cursor = TRUE,
                                   ![c].cursors = @ + 1]
                ELSE [frame EXCEPT ![c].pc = "exit", ![c].exc = outcome]
    /\ UNCHANGED <<environ, ctorCall, connector, conns>>

\* Line 133, cursor.execute(query, params): one statement on the call's
\* own connection.
cursor_execute(c, outcome) ==
    /\ frame[c].pc = "execute"
    /\ conns' = {IF k.id = frame[c].conn
                 THEN [k EXCEPT !.usedBy = @ \cup {c}] ELSE k : k \in conns}
    /\ frame' = IF outcome = Ok
                THEN [frame EXCEPT ![c].pc = "fetchall", ![c].executes = @ + 1]
                ELSE [frame EXCEPT ![c].pc = "exit", ![c].executes = @ + 1,
                                   ![c].exc = outcome]
    /\ UNCHANGED <<environ, ctorCall, connector>>

\* Line 134, cursor.fetchall(), when it returns rows.
cursor_fetchall(c, rows) ==
    /\ frame[c].pc = "fetchall"
    /\ frame' = [frame EXCEPT ![c].pc = "exit", ![c].fetches = @ + 1,
                              ![c].results = rows]
    /\ UNCHANGED <<environ, ctorCall, connector, conns>>

\* Line 134, cursor.fetchall(), when it raises.
cursor_fetchall_fails(c, outcome) ==
    /\ frame[c].pc = "fetchall"
    /\ outcome # Ok
    /\ frame' = [frame EXCEPT ![c].pc = "exit", ![c].fetches = @ + 1,
                              ![c].exc = outcome]
    /\ UNCHANGED <<environ, ctorCall, connector, conns>>

\* Leaving the two with blocks of lines 131-132, by return or by exception:
\* the cursor and the connection are closed, then the exception in flight,
\* if any, reaches the except clauses of lines 135-140.
with_exit(c) ==
    /\ frame[c].pc = "exit"
    /\ conns' = {k \in conns : k.id # frame[c].conn}
    /\ frame' = [frame EXCEPT ![c].pc = "handle", ![c].conn = 0,
                              ![c].cursor = FALSE, ![c].closed = @ + 1,
                              ![c].got = (frame[c].exc = NoExc),
                              ![c].err = IF frame[c].exc = NoExc THEN NoExc
                                         ELSE ExecuteQueryRaises(frame[c].exc)]
    /\ UNCHANGED <<environ, ctorCall, connector>>

(***************************************************************************)
(* The rest of each public operation: the body of its try block after      *)
(* _execute_query, and its except clauses.                                 *)
(***************************************************************************)
DbPrefix(op) ==
    CASE op = "check_connection" -> "Database connection failed: "
      [] op = "fetch_latest_values" -> "Database error while fetching latest values: "
      [] op = "fetch_raw_data" -> "Database error while fetching raw data: "
      [] op = "fetch_interpolated_data" -> "Database error while fetching interpolated data: "
      [] op = "fetch_data_at_times" -> "Database error while fetching data at specified times: "

UnexpectedPrefix(op) ==
    CASE op = "check_connection" -> "Unexpected error during connection check: "
      [] op = "fetch_latest_values" -> "Unexpected error while fetching latest values: "
      [] op = "fetch_raw_data" -> "Unexpected error while fetching raw data: "
      [] op = "fetch_interpolated_data" -> "Unexpected error while fetching interpolated data: "
      [] op = "fetch_data_at_times" -> "Unexpected error while fetching data at specified times: "

SuccessMessage(op) ==
    CASE op = "check_connection" -> "Connection successful"
      [] op = "fetch_latest_values" -> "Successfully fetched latest values"
      [] op = "fetch_raw_data" -> "Successfully fetched raw data"
      [] op = "fetch_interpolated_data" -> "Successfully fetched interpolated data"
      [] op = "fetch_data_at_times" -> "Successfully fetched data at specified times"

\* What the reshaping of an operation yields: its dict, or the exception
\* raised while building it.  check_connection discards the rows.
Reshape(op, rows, zone) ==
    CASE op = "check_connection" -> [raised |-> NoExc, data |-> EmptyDict]
      [] op = "fetch_latest_values" -> LatestComprehension(rows, zone, EmptyDict)
      [] OTHER -> GroupLoop(rows, zone, EmptyDict)

\* The two except clauses every operation has: DatabaseError and
\* UnexpectedError become 500 envelopes; any other exception is not caught.
Caught(e) == e.type \in {"DatabaseError", "UnexpectedError"}

ErrorResponse(op, e) ==
    create_response(500, NoneResult,
        <<IF e.type = "DatabaseError" THEN DbPrefix(op) ELSE UnexpectedPrefix(op)>>
            \o e.msg)

SuccessResponse(op, data) ==
    create_response(200,
        IF op = "check_connection" THEN NoneResult ELSE DictResult(data),
        <<SuccessMessage(op)>>)

\* Lines 148-154, 171-185, 211-228, 263-283, 309-326, from the return of
\* _execute_query on.
Complete(c) ==
    /\ frame[c].pc = "handle"
    /\ LET f == frame[c]
           shaped == Reshape(f.op, f.results, connector.timezone)
           e == IF f.err # NoExc THEN f.err ELSE shaped.raised
       IN  frame' = [frame EXCEPT ![c] =
              IF e = NoExc
              THEN [f EXCEPT !.pc = "returned",
                             !.response = SuccessResponse(f.op, shaped.data)]
              ELSE IF Caught(e)
              THEN [f EXCEPT !.pc = "returned", !.response = ErrorResponse(f.op, e)]
              ELSE [f EXCEPT !.pc = "raised", !.raised = e]]
    /\ UNCHANGED <<environ, ctorCall, connector, conns>>

\* The caller has the envelope (or the exception) and may call again.
Return(c) ==
    /\ frame[c].pc \in {"returned", "raised"}
    /\ frame' = [frame EXCEPT ![c] = IdleFrame]
    /\ UNCHANGED <<environ, ctorCall, connector, conns>>

(***************************************************************************)
(* Spec: one caller on the connector of the tests' setUp, every operation, *)
(* every kind of argument, every answer of the store.                      *)
(***************************************************************************)
Init ==
    /\ environ = EmptyEnv
    /\ \E tz \in ValidZones :
          /\ ctorCall = [done |-> TRUE, args |-> SetUpArgs(tz),
                         raised |-> InitRaises(SetUpArgs(tz), EmptyEnv)]
          /\ connector = InitAttrs(SetUpArgs(tz), EmptyEnv)
    /\ frame = [c \in {"A"} |-> IdleFrame]
    /\ conns = {}

Next ==
    \/ \E c \in Callers : check_connection(c)
    \/ \E c \in Callers, tl \in TagColls : fetch_latest_values(c, tl)
    \/ \E c \in Callers, tl \in TagColls, s, e \in Times : fetch_raw_data(c, tl, s, e)
    \/ \E c \in Callers, tl \in TagColls, s, e \in Times, st \in StepSizes,
          ag \in Aggregates : fetch_interpolated_data(c, tl, s, e, st, ag)
    \/ \E c \in Callers, tl \in TagColls, ts \in TimeColls : fetch_data_at_times(c, tl, ts)
    \/ \E c \in Callers, o \in Outcomes : pymssql_connect(c, o)
    \/ \E c \in Callers, o \in Outcomes : conn_cursor(c, o)
    \/ \E c \in Callers, o \in Outcomes : cursor_execute(c, o)
    \/ \E c \in Callers, rows \in SeqsUpTo(Rows, MaxRows) : cursor_fetchall(c, rows)
    \/ \E c \in Callers, o \in Failures : cursor_fetchall_fails(c, o)
    \/ \E c \in Callers : with_exit(c)
    \/ \E c \in Callers : Complete(c)
    \/ \E c \in Callers : Return(c)

Spec == Init /\ [][Next]_vars

(***************************************************************************)
(* SpecConc: two callers share the connector and call concurrently; their  *)
(* calls interleave at every step of the driver.  One valid and one        *)
(* invalid argument list per operation keep the product of the frames      *)
(* small.                                                                  *)
(***************************************************************************)
ConcCallers == {"A", "B"}
ConcTagColls == {EmptyList, Coll("list", TagItems(1))}
ConcTimeColls == {Coll("list", TimeItems(1))}
ConcRowSeqs ==
    {<<>>,
     <<[tagName |-> "T1", timestamp |-> DateTime(1, 20, "naive"), value |-> 1, quality |-> 192]>>,
     <<[tagName |-> "T1", timestamp |-> DateTime(1, 20, "naive"), value |-> 1]>>}

InitConc ==
    /\ environ = EmptyEnv
    /\ ctorCall = [done |-> TRUE, args |-> SetUpArgs("UTC"),
                   raised |-> InitRaises(SetUpArgs("UTC"), EmptyEnv)]
    /\ connector = InitAttrs(SetUpArgs("UTC"), EmptyEnv)
    /\ frame = [c \in ConcCallers |-> IdleFrame]
    /\ conns = {}

NextConc ==
    \/ \E c \in Callers : check_connection(c)
    \/ \E c \in Callers, tl \in ConcTagColls : fetch_latest_values(c, tl)
    \/ \E c \in Callers, tl \in ConcTagColls : fetch_raw_data(c, tl, 0, 1)
    \/ \E c \in Callers, tl \in ConcTagColls :
          fetch_interpolated_data(c, tl, 0, 1, 1, "AVG")
    \/ \E c \in Callers, tl \in ConcTagColls, ts \in ConcTimeColls :
          fetch_data_at_times(c, tl, ts)
    \/ \E c \in Callers, o \in Outcomes : pymssql_connect(c, o)
    \/ \E c \in Callers, o \in Outcomes : conn_cursor(c, o)
    \/ \E c \in Callers, o \in Outcomes : cursor_execute(c, o)
    \/ \E c \in Callers, rows \in ConcRowSeqs : cursor_fetchall(c, rows)
    \/ \E c \in Callers, o \in Failures : cursor_fetchall_fails(c, o)
    \/ \E c \in Callers : with_exit(c)
    \/ \E c \in Callers : Complete(c)
    \/ \E c \in Callers : Return(c)

SpecConc == InitConc /\ [][NextConc]_vars

(***************************************************************************)
(* SpecCtor: the process starts with some environment and no connector;    *)
(* DataParcConnector(...) is called with any arguments until it returns a  *)
(* connector, on which the operations are then called.                     *)
(***************************************************************************)
CtorArgs ==
    [site_abbreviation : {None, "TEST"},
     server : {None, "", "localhost"},
     user : {None, "test_user"},
     password : {None, "test_password"},
     timezone : {None, "Asia/Seoul", "Mars/Olympus"},
     database : {"ctc_config"}]

CtorEnvs ==
    {[n \in EnvNames |->
        CASE n = "DATAPARC_SERVER" -> s
          [] n = "DATAPARC_USERNAME" -> u
          [] n = "DATAPARC_PASSWORD" -> p
          [] n = "DATAPARC_TIMEZONE" -> z
          [] OTHER -> None] :
        s \in {None, "envhost"}, u \in {None, "env_user"},
        p \in {None, "", "env_password"}, z \in {None, "Asia/Seoul", "Mars/Olympus"}}

InitCtor ==
    /\ environ \in CtorEnvs
    /\ ctorCall = NoCtorCall
    /\ connector = NoConnector
    /\ frame = [c \in {"A"} |-> IdleFrame]
    /\ conns = {}

NextCtor ==
    \/ \E args \in CtorArgs : DataParcConnector_init(args)
    \/ \E c \in Callers : check_connection(c)
    \/ \E c \in Callers, tl \in ConcTagColls : fetch_latest_values(c, tl)
    \/ \E c \in Callers, tl \in ConcTagColls : fetch_raw_data(c, tl, 0, 1)
    \/ \E c \in Callers, tl \in ConcTagColls :
          fetch_interpolated_data(c, tl, 0, 1, 1, "AVG")
    \/ \E c \in Callers, tl \in ConcTagColls, ts \in ConcTimeColls :
          fetch_data_at_times(c, tl, ts)
    \/ \E c \in Callers, o \in Outcomes : pymssql_connect(c, o)
    \/ \E c \in Callers, o \in Outcomes : conn_cursor(c, o)
    \/ \E c \in Callers, o \in Outcomes : cursor_execute(c, o)
    \/ \E c \in Callers, rows \in ConcRowSeqs : cursor_fetchall(c, rows)
    \/ \E c \in Callers, o \in Failures : cursor_fetchall_fails(c, o)
    \/ \E c \in Callers : with_exit(c)
    \/ \E c \in Callers : Complete(c)
    \/ \E c \in Callers : Return(c)

SpecCtor == InitCtor /\ [][NextCtor]_vars

(***************************************************************************)
(* Properties.                                                             *)
(***************************************************************************)
Done(f) == f.pc \in {"returned", "raised"}

\* The call went past its input validation.
PassedValidation(f) ==
    f.pc \notin {"idle"} /\ ~(f.pc = "returned" /\ f.response.status_code = 400)

Range(s) == {s[i] : i \in 1..Len(s)}

\* msg contains the pieces of part, in order and adjacent.
Contains(msg, part) ==
    \E i \in 1..(Len(msg) - Len(part) + 1) : SubSeq(msg, i, i + Len(part) - 1) = part

\* The preconditions of an operation as the specification states them, in
\* its order, each with its message; emptiness is that of the collection's
\* contents, whatever its kind.
Preconditions(op, args) ==
    CASE op = "fetch_latest_values" ->
            <<[broken |-> Len(args.tag_list.items) = 0, msg |-> MsgTagsEmpty]>>
      [] op = "fetch_raw_data" ->
            <<[broken |-> Len(args.tag_list.items) = 0, msg |-> MsgTagsEmpty],
              [broken |-> ~(args.start_time < args.end_time), msg |-> MsgTimeRange]>>
      [] op = "fetch_interpolated_data" ->
            <<[broken |-> Len(args.tag_list.items) = 0, msg |-> MsgTagsEmpty],
              [broken |-> ~(args.start_time < args.end_time), msg |-> MsgTimeRange],
              [broken |-> ~(args.step_size > 0), msg |-> MsgStepSize]>>
      [] op = "fetch_data_at_times" ->
            <<[broken |-> Len(args.tag_list.items) = 0, msg |-> MsgTagsEmpty],
              [broken |-> Len(args.timestamps.items) = 0, msg |-> MsgTimesEmpty]>>
      [] OTHER -> <<>>

Broken(op, args) == SelectSeq(Preconditions(op, args), LAMBDA p : p.broken)

\* C1: every call of a public operation ends by returning an envelope; no
\* exception leaves the operation.
C1_NoExceptionEscapes ==
    \A c \in Callers : frame[c].pc # "raised"

\* C2: a fetch call whose input breaks a precondition (for any kind of
\* collection) returns 400, no result, the message of a broken precondition,
\* and the store sees no connect and no execute during the call.
C2_BrokenInputNeverReachesStore ==
    \A c \in Callers :
        LET f == frame[c] IN
        (f.pc # "idle" /\ f.op \in FetchOps /\ Broken(f.op, f.args) # <<>>)
        => /\ f.connects = 0
           /\ f.executes = 0
           /\ Done(f) =>
                 /\ f.pc = "returned"
                 /\ f.response.status_code = 400
                 /\ f.response.result.isNone
                 /\ f.response.message \in {p.msg : p \in Range(Broken(f.op, f.args))}

\* C5: a failure while the rows are handled (a row lacking a field) ends in
\* a 500 envelope with no result and the unexpected-failure prefix.
C5_RowFailureIs500 ==
    \A c \in Callers :
        LET f == frame[c] IN
        (Done(f) /\ f.op \in FetchOps /\ f.got
            /\ \E i \in 1..Len(f.results) : ~RowOk(f.results[i]))
        => /\ f.pc = "returned"
           /\ f.response.status_code = 500
           /\ f.response.result.isNone
           /\ Head(f.response.message) = UnexpectedPrefix(f.op)

\* C10: a 400 envelope carries the message of the first broken precondition
\* in the stated order.
C10_FirstBrokenPreconditionWins ==
    \A c \in Callers :
        LET f == frame[c] IN
        (f.pc = "returned" /\ f.response.status_code = 400)
        => /\ Broken(f.op, f.args) # <<>>
           /\ f.response.message = Head(Broken(f.op, f.args)).msg

\* The rows of tag t among rows, in arrival order.
RowsOf(rows, t) == SelectSeq(rows, LAMBDA r : r.tagName = t)

TagsIn(rows) == {rows[i].tagName : i \in 1..Len(rows)}

RECURSIVE SumLen(_, _)
SumLen(d, keys) ==
    IF keys = {} THEN 0
    ELSE LET k == CHOOSE k \in keys : TRUE IN Len(d[k]) + SumLen(d, keys \ {k})

\* _execute_query returned rows that all have the four fields.
GotWellFormedRows(f) ==
    f.got /\ \A i \in 1..Len(f.results) : RowOk(f.results[i])

\* C4: when the driver fails while connecting or executing, the operation
\* returns 500 with no result and a message that contains the text of the
\* cause; the message starts with the operation's database prefix for a
\* pymssql.Error and with its unexpected prefix otherwise, and no database
\* prefix is an unexpected prefix.
C4_StoreFailureIs500WithCause ==
    /\ {DbPrefix(op) : op \in Ops} \cap {UnexpectedPrefix(op) : op \in Ops} = {}
    /\ \A c \in Callers :
          LET f == frame[c] IN
          (Done(f) /\ f.exc # NoExc)
          => /\ f.pc = "returned"
             /\ f.response.status_code = 500
             /\ f.response.result.isNone
             /\ Contains(f.response.message, f.exc.msg)
             /\ Head(f.response.message) =
                   IF f.exc.type = "pymssql.Error" THEN DbPrefix(f.op)
                   ELSE UnexpectedPrefix(f.op)

\* A fetch returned after the driver raised pymssql.Error from execute, and
\* check_connection's and the fetch's other failure kind are reachable too.
C4_Witness ==
    \E c \in Callers :
        /\ frame[c].pc = "returned"
        /\ frame[c].op = "fetch_interpolated_data"
        /\ frame[c].exc.type = "pymssql.Error"
        /\ frame[c].executes = 1
        /\ frame[c].fetches = 0

\* C6: fetch_raw_data, fetch_interpolated_data and fetch_data_at_times, on
\* well-formed rows, return 200 and a dict whose keys are exactly the tag
\* names of the rows; each key holds one measurement per row of that tag, in
\* arrival order, with the row's value and quality; the lengths add up to
\* the number of rows.
C6_GroupedByTagInArrivalOrder ==
    \A c \in Callers :
        LET f == frame[c] IN
        (Done(f) /\ f.op \in GroupedOps /\ GotWellFormedRows(f))
        => /\ f.pc = "returned"
           /\ f.response.status_code = 200
           /\ ~f.response.result.isNone
           /\ LET d == f.response.result.data IN
              /\ DOMAIN d = TagsIn(f.results)
              /\ \A t \in DOMAIN d :
                    LET rs == RowsOf(f.results, t) IN
                    /\ Len(d[t]) = Len(rs)
                    /\ \A j \in 1..Len(rs) :
                          /\ d[t][j].value = rs[j].value
                          /\ d[t][j].quality = rs[j].quality
              /\ SumLen(d, DOMAIN d) = Len(f.results)

\* fetch_raw_data returned two different rows of one tag, and a requested
\* tag is absent from the result.
C6_Witness ==
    \E c \in Callers :
        LET f == frame[c] IN
        /\ f.pc = "returned" /\ f.op = "fetch_raw_data" /\ f.got
        /\ Len(f.results) = 2
        /\ RowOk(f.results[1]) /\ RowOk(f.results[2])
        /\ f.results[1].tagName = "T2" /\ f.results[2].tagName = "T2"
        /\ f.results[1].quality # f.results[2].quality
        /\ f.args.tag_list.items = <<"T1">>

\* C7: fetch_latest_values, on well-formed rows, returns 200 and a dict
\* whose keys are exactly the tag names of the rows, each mapped to one
\* measurement (not a sequence) with the value and quality of the last row
\* of that tag.
C7_LatestIsLastRowOfTag ==
    \A c \in Callers :
        LET f == frame[c] IN
        (Done(f) /\ f.op = "fetch_latest_values" /\ GotWellFormedRows(f))
        => /\ f.pc = "returned"
           /\ f.response.status_code = 200
           /\ ~f.response.result.isNone
           /\ LET d == f.response.result.data IN
              /\ DOMAIN d = TagsIn(f.results)
              /\ \A t \in DOMAIN d :
                    LET rs == RowsOf(f.results, t) IN
                    /\ DOMAIN d[t] = {"value", "timestamp", "quality"}
                    /\ d[t].value = rs[Len(rs)].value
                    /\ d[t].quality = rs[Len(rs)].quality

\* fetch_latest_values returned after the store gave two rows of one tag
\* with different qualities.
C7_Witness ==
    \E c \in Callers :
        LET f == frame[c] IN
        /\ f.pc = "returned" /\ f.op = "fetch_latest_values" /\ f.got
        /\ Len(f.results) = 2
        /\ RowOk(f.results[1]) /\ RowOk(f.results[2])
        /\ f.results[1].tagName = f.results[2].tagName
        /\ f.results[1].quality # f.results[2].quality

\* The measurement the result holds for the j-th row of tag t.
MeasurementFor(f, t, j) ==
    IF f.op = "fetch_latest_values" THEN f.response.result.data[t]
    ELSE f.response.result.data[t][j]

\* C8: in every 200 result of a fetch, the timestamp of a measurement has
\* the clock fields of its row's timestamp and the connector's timezone as
\* its zone, and attaching the zone once more changes nothing.
C8_ZoneAttachedClockKept ==
    \A c \in Callers :
        LET f == frame[c] IN
        (f.pc = "returned" /\ f.op \in FetchOps /\ f.response.status_code = 200)
        => \A t \in TagsIn(f.results) :
              LET rs == RowsOf(f.results, t) IN
              \A j \in 1..Len(rs) :
                 (f.op = "fetch_latest_values" => j = Len(rs))
                 => LET m == MeasurementFor(f, t, j) IN
                    /\ m.timestamp.day = rs[j].timestamp.day
                    /\ m.timestamp.hour = rs[j].timestamp.hour
                    /\ m.timestamp.tzinfo = connector.timezone
                    /\ ReplaceTzinfo(m.timestamp, connector.timezone) = m.timestamp

\* A connector in a non-UTC zone returned a measurement of a naive row
\* timestamp and one of a row timestamp that already carried UTC.
C8_Witness ==
    \E c \in Callers :
        LET f == frame[c] IN
        /\ f.pc = "returned" /\ f.op = "fetch_data_at_times"
        /\ f.response.status_code = 200
        /\ connector.timezone = "Asia/Seoul"
        /\ Len(f.results) = 2
        /\ f.results[1].timestamp.tzinfo = "naive"
        /\ f.results[2].timestamp.tzinfo = "UTC"

\* The frames that hold connection k.
Holders(k) == {c \in Callers : frame[c].conn = k.id}

\* C3 (as stated): every finished call that passed validation opened
\* exactly one connection, executed exactly one statement and closed the
\* connection.
C3_ExactlyOneConnectionAndStatement ==
    \A c \in Callers :
        LET f == frame[c] IN
        (Done(f) /\ PassedValidation(f))
        => /\ f.opened = 1
           /\ f.executes = 1
           /\ f.closed = 1

\* C3 (amended): a call makes one pymssql.connect call and at most one
\* execute call, never a second attempt; a finished call that passed
\* validation made exactly one connect call, executed exactly one statement
\* if it got a connection and a cursor and none otherwise, and closed the
\* connection it opened; an open connection is held by one call only and
\* used by no other; when no call is in progress no connection is open.
C3_OneAttemptAndRelease ==
    /\ \A c \in Callers :
          LET f == frame[c] IN
          /\ f.connects <= 1 /\ f.opened <= f.connects
          /\ f.cursors <= f.opened /\ f.executes <= f.cursors
          /\ (Done(f) /\ PassedValidation(f))
             => /\ f.connects = 1
                /\ f.executes = f.cursors
                /\ f.closed = f.opened
                /\ f.conn = 0
          /\ (f.conn # 0) => \E k \in conns : k.id = f.conn
    /\ \A k \in conns :
          /\ Cardinality(Holders(k)) = 1
          /\ k.usedBy \subseteq Holders(k)
    /\ (\A c \in Callers : frame[c].pc = "idle" \/ Done(frame[c])) => conns = {}

\* Two calls are in progress at once, each with its own open connection on
\* which it has executed its statement.
C3_Witness ==
    \E c1, c2 \in Callers :
        /\ c1 # c2
        /\ frame[c1].pc = "fetchall" /\ frame[c2].pc = "exit"
        /\ frame[c1].conn # 0 /\ frame[c2].conn # 0
        /\ frame[c1].conn # frame[c2].conn
        /\ frame[c2].exc # NoExc

\* What an attribute resolves to as the claim states it: the explicit
\* argument when one is given, otherwise the environment.
ResolvedAsStated(arg, envval) == IF arg # None THEN arg ELSE envval

\* What an attribute resolves to: the explicit argument when it is given
\* and not empty, otherwise the environment.
Resolved(arg, envval) == IF arg # None /\ arg # "" THEN arg ELSE envval

Nothing(x) == x = None \/ x = ""

C9_CtorContract ==
    ctorCall.done =>
        LET a == ctorCall.args
            server == Resolved(a.server, environ["DATAPARC_SERVER"])
            user == Resolved(a.user, environ["DATAPARC_USERNAME"])
            password == Resolved(a.password, environ["DATAPARC_PASSWORD"])
            zone == Resolved(a.timezone,
                             Resolved(environ["DATAPARC_TIMEZONE"], "UTC"))
        IN  /\ (ctorCall.raised # None)
                  <=> \/ Nothing(server) \/ Nothing(user) \/ Nothing(password)
                      \/ zone \notin ValidZones
            /\ connector.constructed <=> ctorCall.raised = None
            /\ connector.constructed
                  => /\ connector.server = server /\ ~Nothing(server)
                     /\ connector.user = user /\ ~Nothing(user)
                     /\ connector.password = password /\ ~Nothing(password)

====
